---- MODULE Spec2Model ----
(***************************************************************************)
(* A model of sqlalchemy_csv_normalise: the column classifier, the natural *)
(* key resolver, the normalisation planner, the denormalising query, the   *)
(* renormalising row maker and the two row transformers.                   *)
(*                                                                         *)
(* The schema is one table under transformation (normalised_table, whose   *)
(* columns are drawn from a catalogue of column declarations) and five     *)
(* remote tables.  Every operation of the package is one action; its       *)
(* argument, result and error are kept in arg, res and err.                *)
(***************************************************************************)
EXTENDS Integers, Sequences, FiniteSets, TLC

VARIABLES table, db, lookups, op, arg, res, err

vars == <<table, db, lookups, op, arg, res, err>>

\* ---------------------------------------------------------------- bounds
\* Most columns of normalised_table.
MaxCols == 3
\* Most stored rows of normalised_table a query runs over.
MaxRows == 2

\* ---------------------------------------------------------------- values
\* Python values, tagged with their type so that 1 and "1" differ.
PyInt(n) == [t |-> "int", i |-> n, s |-> ""]
PyStr(x) == [t |-> "str", i |-> 0, s |-> x]
PyBool(b) == [t |-> "bool", i |-> IF b THEN 1 ELSE 0, s |-> ""]
PyDate(n) == [t |-> "date", i |-> n, s |-> ""]
None == [t |-> "none", i |-> 0, s |-> ""]

\* No result (the call raised, or nothing was called yet).
NoValue == [t |-> "novalue", i |-> 0, s |-> ""]

\* isinstance(v, str)
IsStr(v) == v.t = "str"

\* The decimal text of a small integer.
IntText(n) ==
    CASE n = 0 -> "0" [] n = 1 -> "1" [] n = 2 -> "2" [] n = 3 -> "3"
      [] n = 4 -> "4" [] OTHER -> "9"

\* str(d) of a date.
DateText(n) ==
    CASE n = 1 -> "2020-01-01" [] n = 2 -> "2020-01-02" [] n = 3 -> "2020-01-03"
      [] OTHER -> "2020-01-09"

\* str(v)
Str(v) ==
    CASE v.t = "str" -> v
      [] v.t = "int" -> PyStr(IntText(v.i))
      [] v.t = "bool" -> PyStr(IF v.i = 1 THEN "True" ELSE "False")
      [] v.t = "date" -> PyStr(DateText(v.i))
      [] OTHER -> PyStr("None")

\* ---------------------------------------------------------------- dicts
\* A row is a dict: a function from a finite set of column names to values.
EmptyDict == [k \in {} |-> None]

DictSet(c, key, v) == [k \in (DOMAIN c) \cup {key} |-> IF k = key THEN v ELSE c[k]]

DictDel(c, key) == [k \in (DOMAIN c) \ {key} |-> c[k]]

\* ---------------------------------------------------------------- schema
\* A Column: the metadata the package reads through inspect(table).columns.
Col(tbl, nm, pk, uq, nl, ty, fks) ==
    [table |-> tbl, name |-> nm, primary_key |-> pk, unique |-> uq,
     nullable |-> nl, type |-> ty, foreign_keys |-> fks]

\* A ForeignKey: the column it refers to.
FK(tbl, nm) == {[table |-> tbl, column |-> nm]}

NoFK == {}

Main == "normalised_table"

\* The tables that foreign keys of normalised_table refer to.
Remote ==
    [lookup_table |->
        << Col("lookup_table", "id", TRUE, FALSE, FALSE, "int", NoFK),
           Col("lookup_table", "description", FALSE, TRUE, FALSE, "str", NoFK) >>,
     lookup_nonk_table |->
        << Col("lookup_nonk_table", "id", TRUE, FALSE, FALSE, "int", NoFK),
           Col("lookup_nonk_table", "description", FALSE, FALSE, FALSE, "str", NoFK) >>,
     code_table |->
        << Col("code_table", "id", TRUE, FALSE, FALSE, "int", NoFK),
           Col("code_table", "code", FALSE, TRUE, FALSE, "int", NoFK) >>,
     kind_table |->
        << Col("kind_table", "id", TRUE, FALSE, FALSE, "int", NoFK),
           Col("kind_table", "label", FALSE, TRUE, FALSE, "str", NoFK) >>,
     link_table |->
        << Col("link_table", "lookup_id", TRUE, FALSE, FALSE, "int",
               FK("lookup_table", "id")) >>]

RemoteNames == DOMAIN Remote

TableNames == RemoteNames \cup {Main}

\* The column declarations normalised_table is built from.
Catalogue ==
    << Col(Main, "id", TRUE, FALSE, FALSE, "int", NoFK),
       Col(Main, "tenant", TRUE, FALSE, FALSE, "int", NoFK),
       Col(Main, "username", FALSE, TRUE, FALSE, "str", NoFK),
       Col(Main, "email", FALSE, TRUE, TRUE, "str", NoFK),
       Col(Main, "valid", FALSE, FALSE, FALSE, "bool", NoFK),
       Col(Main, "born", FALSE, FALSE, TRUE, "date", NoFK),
       Col(Main, "accounttype", FALSE, FALSE, TRUE, "str", NoFK),
       Col(Main, "accounttype_id", FALSE, FALSE, FALSE, "int", FK("lookup_table", "id")),
       Col(Main, "nonk_id", FALSE, FALSE, TRUE, "int", FK("lookup_nonk_table", "id")),
       Col(Main, "code", FALSE, FALSE, TRUE, "int", FK("code_table", "id")),
       Col(Main, "code_id", FALSE, FALSE, FALSE, "int", FK("kind_table", "id")),
       Col(Main, "link_id", FALSE, FALSE, TRUE, "int", FK("link_table", "lookup_id")),
       Col(Main, "owner_id", TRUE, FALSE, FALSE, "int", FK("lookup_nonk_table", "id")) >>

\* The elements of a set of indices, in increasing order, as columns.
RECURSIVE Pick(_, _)
Pick(S, i) ==
    IF i > Len(Catalogue) THEN << >>
    ELSE IF i \in S THEN << Catalogue[i] >> \o Pick(S, i + 1)
    ELSE Pick(S, i + 1)

\* Every declaration of normalised_table with one to MaxCols columns.
Tables ==
    { Pick(S, 1) : S \in { X \in SUBSET (1 .. Len(Catalogue)) :
                             Cardinality(X) \in 1 .. MaxCols } }

\* inspect(t).columns, in declaration order.
Columns(t) == IF t = Main THEN table ELSE Remote[t]

\* The range of a sequence.
Range(s) == { s[i] : i \in 1 .. Len(s) }

\* ------------------------------------------------------- classification
IsForeign(c) == c.foreign_keys # {}

IsPrimary(c) == ~IsForeign(c) /\ c.primary_key

IsOther(c) == ~IsForeign(c) /\ ~c.primary_key

\* columns_partition: foreign key first, then primary key, else other.
columns_partition(t) ==
    [primary_keys |-> SelectSeq(Columns(t), IsPrimary),
     foreign_keys |-> SelectSeq(Columns(t), IsForeign),
     other |-> SelectSeq(Columns(t), IsOther)]

IsUnique(c) == c.unique

\* find_natural_key taking any unique other columns as the natural key,
\* however many there are.
find_natural_key_any(t) ==
    LET part == columns_partition(t)
        natural_keys == SelectSeq(part.other, IsUnique)
    IN  IF Len(natural_keys) >= 1 THEN natural_keys ELSE part.primary_keys

\* find_natural_key: the one unique other column, or the primary keys.
find_natural_key(t) ==
    LET part == columns_partition(t)
        natural_keys == SelectSeq(part.other, IsUnique)
    IN  IF Len(natural_keys) = 1 THEN natural_keys ELSE part.primary_keys

\* ---------------------------------------------------------------- store
\* The rows of the remote tables, in the order a query returns them: two
\* databases.
Row2(k1, v1, k2, v2) == [k \in {k1, k2} |-> IF k = k1 THEN v1 ELSE v2]

Row1(k1, v1) == [k \in {k1} |-> v1]

DBs ==
    { [lookup_table |-> << Row2("id", PyInt(1), "description", PyStr("admin")),
                           Row2("id", PyInt(2), "description", PyStr("user")) >>,
       lookup_nonk_table |-> << Row2("id", PyInt(1), "description", PyStr("one")),
                                Row2("id", PyInt(2), "description", PyStr("two")) >>,
       code_table |-> << Row2("id", PyInt(1), "code", PyInt(2)),
                         Row2("id", PyInt(2), "code", PyInt(1)) >>,
       kind_table |-> << Row2("id", PyInt(1), "label", PyStr("user")),
                         Row2("id", PyInt(2), "label", PyStr("admin")) >>,
       link_table |-> << Row1("lookup_id", PyInt(1)) >>],
      [lookup_table |-> << Row2("id", PyInt(2), "description", PyStr("user")) >>,
       lookup_nonk_table |-> << Row2("id", PyInt(2), "description", PyStr("two")) >>,
       code_table |-> << Row2("id", PyInt(2), "code", PyInt(1)) >>,
       kind_table |-> << Row2("id", PyInt(2), "label", PyStr("admin")) >>,
       link_table |-> << >>] }

\* The session: the rows of every table, normalised_table holding `stored`.
Session(stored) == [t \in TableNames |-> IF t = Main THEN stored ELSE db[t]]

\* ---------------------------------------------------------------- planner
\* c.primary_key
IsPk(c) == c.primary_key

\* list(fk.foreign_keys)[0].column
TargetColumn(fk) ==
    LET ref == CHOOSE f \in fk.foreign_keys : TRUE
        cols == Columns(ref.table)
    IN  cols[CHOOSE i \in 1 .. Len(cols) : cols[i].name = ref.column]

\* column.label(name)
Label(c, nm) == [element |-> c, name |-> nm]

\* maybe_primary_keys with the test the other way round.
maybe_primary_keys_inverted(t) ==
    IF SelectSeq(find_natural_key(t), IsPk) # << >>
    THEN << >>
    ELSE columns_partition(t).primary_keys

\* The primary keys go out only when the natural key found is made of
\* primary-key columns.
maybe_primary_keys(t) ==
    IF SelectSeq(find_natural_key(t), IsPk) # << >>
    THEN columns_partition(t).primary_keys
    ELSE << >>

\* One turn of the loop of _normalisation_info: a foreign key whose target
\* table has a primary-key natural key is passed through, any other is
\* denormalised; indexing an empty natural key raises IndexError.
Place(acc, fk, to_column, remote_natural_keys) ==
    IF SelectSeq(remote_natural_keys, IsPk) # << >>
    THEN [acc EXCEPT !.simple_cols = Append(@, fk)]
    ELSE IF remote_natural_keys = << >>
    THEN [acc EXCEPT !.err = "IndexError"]
    ELSE [acc EXCEPT
            !.denormalised_cols = Append(@, Label(remote_natural_keys[1], fk.name)),
            !.to_tables = Append(@, to_column.table),
            !.to_columns = Append(@, to_column),
            !.from_columns = Append(@, fk)]

PlaceAt(acc, fk, to_column) ==
    Place(acc, fk, to_column, find_natural_key(to_column.table))

\* The loop over the foreign keys, ended by the first error.
RECURSIVE PlanLoop(_, _)
PlanLoop(fks, acc) ==
    IF fks = << >> \/ acc.err # "none" THEN acc
    ELSE PlanLoop(Tail(fks), PlaceAt(acc, Head(fks), TargetColumn(Head(fks))))

\* _normalisation_info(t): the plan, or the error it raised.
normalisation_info(t) ==
    PlanLoop(columns_partition(t).foreign_keys,
             [simple_cols |-> maybe_primary_keys(t) \o columns_partition(t).other,
              denormalised_cols |-> << >>, to_tables |-> << >>,
              to_columns |-> << >>, from_columns |-> << >>, err |-> "none"])

\* _tidy_colname: re.sub('_id$', '', n), on the names of the schema.
tidy_colname(n) ==
    CASE n = "accounttype_id" -> "accounttype"
      [] n = "nonk_id" -> "nonk"
      [] n = "code_id" -> "code"
      [] n = "link_id" -> "link"
      [] n = "lookup_id" -> "lookup"
      [] n = "owner_id" -> "owner"
      [] OTHER -> n

\* ---------------------------------------------------------------- query
\* SQL equality: never true of NULL.
SqlEq(a, b) == a.t # "none" /\ b.t # "none" /\ a = b

\* Matching with the join condition left out: every remote row joins.
Matching_all(rows, nm, v) == rows

\* The rows of `rows` whose column `nm` equals v, in order.
RECURSIVE Matching(_, _, _)
Matching(rows, nm, v) ==
    IF rows = << >> THEN << >>
    ELSE (IF SqlEq(Head(rows)[nm], v) THEN << Head(rows) >> ELSE << >>)
         \o Matching(Tail(rows), nm, v)

\* One partial result joined to each remote row in turn.
RECURSIVE Extend(_, _)
Extend(partial, matches) ==
    IF matches = << >> THEN << >>
    ELSE << [partial EXCEPT !.joined = Append(@, Head(matches))] >>
         \o Extend(partial, Tail(matches))

\* q.join(to_table, to_column == fk): an inner join of every partial result.
RECURSIVE JoinStep(_, _, _, _)
JoinStep(partials, rows, to_column, fk) ==
    IF partials = << >> THEN << >>
    ELSE Extend(Head(partials),
                Matching(rows, to_column.name, Head(partials).base[fk.name]))
         \o JoinStep(Tail(partials), rows, to_column, fk)

\* The joins of _denormalise_query, in plan order.
RECURSIVE JoinAll(_, _, _, _, _)
JoinAll(partials, session, to_tables, to_columns, from_columns) ==
    IF to_tables = << >> THEN partials
    ELSE JoinAll(JoinStep(partials, session[Head(to_tables)],
                          Head(to_columns), Head(from_columns)),
                 session, Tail(to_tables), Tail(to_columns), Tail(from_columns))

\* The value a selected column takes in a joined row: a labelled column reads
\* the remote row of its own join, any other the row of the table itself.
Project(partial, columns, nsimple) ==
    [j \in 1 .. Len(columns) |->
        IF j <= nsimple THEN partial.base[columns[j].name]
        ELSE partial.joined[j - nsimple][columns[j].element.name]]

\* _denormalise_query(...).all() over the session's rows.
denormalise_query(session, columns, to_tables, to_columns, from_columns) ==
    LET start == [i \in 1 .. Len(session[Main]) |->
                     [base |-> session[Main][i], joined |-> << >>]]
        joined == JoinAll(start, session, to_tables, to_columns, from_columns)
        nsimple == Len(columns) - Len(to_tables)
    IN  [i \in 1 .. Len(joined) |-> Project(joined[i], columns, nsimple)]

\* The names of a sequence of columns, tidied by f where f is given as TRUE.
Names(cols, tidied) ==
    [j \in 1 .. Len(cols) |->
        IF tidied THEN tidy_colname(cols[j].name) ELSE cols[j].name]

\* denormalise_prepare on the plan: the rows of q.all() and col_names.
DenormaliseWith(session, plan) ==
    IF plan.err # "none" THEN [rows |-> << >>, col_names |-> << >>, err |-> plan.err]
    ELSE [rows |-> denormalise_query(session,
                       plan.simple_cols \o plan.denormalised_cols,
                       plan.to_tables, plan.to_columns, plan.from_columns),
          col_names |-> Names(plan.simple_cols, FALSE)
                        \o Names(plan.denormalised_cols, TRUE),
          err |-> "none"]

\* denormalise_prepare(session, table)
denormalise_prepare(session, t) == DenormaliseWith(session, normalisation_info(t))

\* The rows normalised_table may hold.  A foreign key holds NULL (when
\* nullable) or the key of a remote row that one database has and the other
\* may not; the other columns of the i-th row are set by i.
FkValues(c) == IF c.nullable THEN {None, PyInt(1)} ELSE {PyInt(1), PyInt(2)}

PersonName(i) == CASE i = 1 -> "bob" [] i = 2 -> "joe" [] i = 3 -> "ann" [] OTHER -> "zed"

PlainValue(c, i) ==
    CASE c.type = "int" -> PyInt(i)
      [] c.type = "bool" -> PyBool(i = 1)
      [] c.type = "date" -> PyDate(i)
      [] OTHER -> PyStr(PersonName(i))

ForeignNames == { c.name : c \in { x \in Range(table) : IsForeign(x) } }

\* The values the foreign keys of one row take.
FkRows ==
    { f \in [ForeignNames -> {None, PyInt(1), PyInt(2)}] :
        \A c \in Range(table) : IsForeign(c) => f[c.name] \in FkValues(c) }

\* The i-th row, its foreign keys as f gives them.
StoredRow(f, i) ==
    [nm \in { c.name : c \in Range(table) } |->
        LET c == CHOOSE x \in Range(table) : x.name = nm
        IN  IF IsForeign(c) THEN f[nm] ELSE PlainValue(c, i)]

StoredRows(i) == { StoredRow(f, i) : f \in FkRows }

Stored ==
    UNION { { [i \in 1 .. n |-> StoredRow(fs[i], i)] : fs \in [1 .. n -> FkRows] } :
            n \in 0 .. MaxRows }

\* ---------------------------------------------------------------- renormalise
\* { str(nat): surr for nat, surr in lookup_query.all() }: a later row
\* replaces an earlier one under the same text.
RECURSIVE BuildLookup(_, _, _, _)
BuildLookup(rows, nat, surr, acc) ==
    IF rows = << >> THEN acc
    ELSE BuildLookup(Tail(rows), nat, surr,
                     DictSet(acc, Str(Head(rows)[nat]), Head(rows)[surr]))

\* LookupEntry with the csv name left untidied.
LookupEntry_untidied(session, natural_key, surrogate_key) ==
    [csv_name |-> natural_key.name,
     sql_name |-> natural_key.name,
     lookup |-> BuildLookup(session[surrogate_key.table], natural_key.element.name,
                            surrogate_key.name, EmptyDict)]

\* One entry of lookups: (csv_name, sql_name, lookup).
LookupEntry(session, natural_key, surrogate_key) ==
    [csv_name |-> tidy_colname(natural_key.name),
     sql_name |-> natural_key.name,
     lookup |-> BuildLookup(session[surrogate_key.table], natural_key.element.name,
                            surrogate_key.name, EmptyDict)]

\* renormalise_prepare on the plan.
RenormaliseWith(session, plan) ==
    IF plan.err # "none" THEN [built |-> FALSE, list |-> << >>, err |-> plan.err]
    ELSE [built |-> TRUE,
          list |-> [k \in 1 .. Len(plan.denormalised_cols) |->
                      LookupEntry(session, plan.denormalised_cols[k], plan.to_columns[k])],
          err |-> "none"]

\* The closure state renormalise_prepare builds: one entry per denormalised
\* column, or the error the planner raised.
renormalise_prepare(session, t) == RenormaliseWith(session, normalisation_info(t))

\* The loop of _row_maker on the copy c: pop the csv name, look the text up,
\* store the surrogate key under the sql name.  A missing key, in the row or
\* in the lookup, raises KeyError and leaves c as it is at that point.
RECURSIVE MakerLoop(_, _)
MakerLoop(c, list) ==
    IF list = << >> THEN [c |-> c, err |-> "none"]
    ELSE LET l == Head(list)
         IN  IF l.csv_name \notin DOMAIN c THEN [c |-> c, err |-> "KeyError"]
             ELSE LET key == c[l.csv_name]
                      popped == DictDel(c, l.csv_name)
                  IN  IF key \notin DOMAIN l.lookup
                      THEN [c |-> popped, err |-> "KeyError"]
                      ELSE MakerLoop(DictSet(popped, l.sql_name, l.lookup[key]),
                                     Tail(list))

\* What a call that ran the loop to r hands back: the row returned, the
\* caller's row d and the lookups, both as the call leaves them.
Returned(r, d, list) ==
    [ret |-> IF r.err = "none" THEN r.c ELSE NoValue, err |-> r.err,
     d |-> d, list |-> list]

\* _row_maker working on the caller's row itself, without the copy.
row_maker_inplace(d, list) == Returned(MakerLoop(d, list), MakerLoop(d, list).c, list)

\* _row_maker(d): the loop works on c = dict(d), a copy.
row_maker(d, list) == Returned(MakerLoop(d, list), d, list)

\* ---------------------------------------------------------------- transformers
IsNullable(c) == c.nullable

\* nullables of empty_deleter: the names of the nullable columns.
nullables(t) == Names(SelectSeq(Columns(t), IsNullable), FALSE)

\* The loop of _row_cleaner on the copy c: c[col] raises KeyError when the
\* row has no such key.
RECURSIVE CleanerLoop(_, _)
CleanerLoop(c, cols) ==
    IF cols = << >> THEN [c |-> c, err |-> "none"]
    ELSE IF Head(cols) \notin DOMAIN c THEN [c |-> c, err |-> "KeyError"]
    ELSE IF c[Head(cols)] = PyStr("") THEN CleanerLoop(DictDel(c, Head(cols)), Tail(cols))
    ELSE CleanerLoop(c, Tail(cols))

\* _row_cleaner(d) of empty_deleter(t)
row_cleaner(d, t) == Returned(CleanerLoop(d, nullables(t)), d, << >>)

\* dateutil.parser.parse on the texts of the model: a date, or no value
\* when the parser rejects the text.
DateParse(v) ==
    CASE v.s = "2020-01-01" -> PyDate(1)
      [] v.s = "2020-01-02" -> PyDate(2)
      [] v.s = "2020-01-03" -> PyDate(3)
      [] v.s = "2020-01-09" -> PyDate(9)
      [] OTHER -> NoValue

\* Coerce with bool(v) for booleans: any non-empty text is true.
Coerce_truthy(ty, v) ==
    CASE ty = "date" -> DateParse(v)
      [] ty = "bool" -> PyBool(v # PyStr(""))
      [] OTHER -> v

\* _COERCE.get(c.type.python_type, lambda x: x) applied to the text v
Coerce(ty, v) ==
    CASE ty = "date" -> DateParse(v)
      [] ty = "bool" -> PyBool(v = PyStr("True"))
      [] OTHER -> v

\* coerceables of type_coercer: the type each column name coerces to.
coerceables(t) ==
    [nm \in { c.name : c \in Range(Columns(t)) } |->
        (CHOOSE c \in Range(Columns(t)) : c.name = nm).type]

\* The loop of _row_coercer on the copy of d: every text value is coerced by
\* its column (the rows are keyed by column names, so coerceables[col] is
\* there); a date the parser rejects raises ParserError.
CoercerLoop(d, co, texts) ==
    IF \E k \in texts : Coerce(co[k], d[k]) = NoValue
    THEN [c |-> d, err |-> "ParserError"]
    ELSE [c |-> [k \in DOMAIN d |-> IF k \in texts THEN Coerce(co[k], d[k]) ELSE d[k]],
          err |-> "none"]

\* _row_coercer(d) of type_coercer(t)
row_coercer(d, t) ==
    Returned(CoercerLoop(d, coerceables(t), { k \in DOMAIN d : IsStr(d[k]) }), d, << >>)

\* ---------------------------------------------------------------- csv
\* What csv.writer writes for a value: str(v), and nothing for None.
CsvText(v) == IF v.t = "none" THEN PyStr("") ELSE Str(v)

\* dict(zip(names, values)) of a row read back: a later column replaces an
\* earlier one of the same name.
DictZip(names, values) ==
    [k \in Range(names) |->
        LET j == CHOOSE x \in 1 .. Len(names) :
                    names[x] = k /\ \A y \in 1 .. Len(names) : names[y] = k => y <= x
        IN  CsvText(values[j])]

\* ---------------------------------------------------------------- inputs
ColumnNames == { c.name : c \in Range(table) }

ColumnOf(nm) == CHOOSE c \in Range(table) : c.name = nm

\* Rows given to _row_cleaner: any of the columns, empty or not.
CleanerRows ==
    UNION { [K -> {PyStr(""), PyStr("x")}] : K \in SUBSET ColumnNames }

\* Values given to _row_coercer for a column: texts, and a value of its type.
CoercerValues(c) ==
    CASE c.type = "bool" -> {PyStr("True"), PyStr("False"), PyStr("Maybe"), PyBool(FALSE)}
      [] c.type = "date" -> {PyStr("2020-01-02"), PyStr("True"), PyDate(1)}
      [] c.type = "int" -> {PyStr("1"), PyInt(1)}
      [] OTHER -> {PyStr("True"), None}

CoercerRows ==
    UNION { { d \in [K -> UNION { CoercerValues(c) : c \in Range(table) }] :
                \A k \in K : d[k] \in CoercerValues(ColumnOf(k)) } :
            K \in SUBSET ColumnNames }

\* Rows given to _row_maker: any of the csv columns; a denormalised column
\* holds a text that some, or no, lookup has.
MakerValues(k, tidied) ==
    IF k \in tidied THEN {PyStr("admin"), PyStr("1"), PyStr("zz")} ELSE {PyStr("x")}

MakerRowsOver(keys, tidied) ==
    UNION { { d \in [K -> {PyStr("admin"), PyStr("1"), PyStr("zz"), PyStr("x")}] :
                \A k \in K : d[k] \in MakerValues(k, tidied) } :
            K \in SUBSET keys }

MakerRowsOf(plan) ==
    MakerRowsOver(Range(Names(plan.simple_cols, FALSE))
                    \cup Range(Names(plan.denormalised_cols, TRUE)),
                  Range(Names(plan.denormalised_cols, TRUE)))

MakerRows == MakerRowsOf(normalisation_info(Main))

\* The row csv.DictReader reads from the first row a query wrote.
WrittenRow(out) == DictZip(out.col_names, out.rows[1])

\* ---------------------------------------------------------------- system
Init ==
    /\ table \in Tables
    /\ db \in DBs
    /\ lookups = [built |-> FALSE, list |-> << >>]
    /\ op = "init"
    /\ arg = NoValue
    /\ res = NoValue
    /\ err = "none"

\* The functions of the package are pure: each is called once on the schema
\* as constructed.  The closures that renormalise_prepare and empty_deleter
\* return are called again and again.

\* find_natural_key(t)
FindNaturalKey ==
    /\ op = "init"
    /\ \E t \in TableNames :
        /\ op' = "find_natural_key"
        /\ arg' = t
        /\ res' = find_natural_key(t)
        /\ err' = "none"
        /\ UNCHANGED <<table, db, lookups>>

\* columns_partition(t)
ColumnsPartition ==
    /\ op = "init"
    /\ \E t \in TableNames :
        /\ op' = "columns_partition"
        /\ arg' = t
        /\ res' = columns_partition(t)
        /\ err' = "none"
        /\ UNCHANGED <<table, db, lookups>>

\* _normalisation_info(t)
NormalisationInfo ==
    /\ op = "init"
    /\ \E t \in TableNames :
        LET plan == normalisation_info(t)
        IN  /\ op' = "normalisation_info"
            /\ arg' = t
            /\ res' = IF plan.err = "none" THEN plan ELSE NoValue
            /\ err' = plan.err
            /\ UNCHANGED <<table, db, lookups>>

\* q, col_names = denormalise_prepare(session, table); q.all()
DenormalisePrepare ==
    /\ op = "init"
    /\ \E stored \in Stored :
        LET out == denormalise_prepare(Session(stored), Main)
        IN  /\ op' = "denormalise_prepare"
            /\ arg' = stored
            /\ res' = IF out.err = "none" THEN out ELSE NoValue
            /\ err' = out.err
            /\ UNCHANGED <<table, db, lookups>>

\* row_maker = renormalise_prepare(session, table)
RenormalisePrepare ==
    /\ op = "init"
    /\ LET made == renormalise_prepare(Session(<< >>), Main)
       IN  /\ op' = "renormalise_prepare"
           /\ arg' = NoValue
           /\ res' = NoValue
           /\ err' = made.err
           /\ lookups' = [built |-> made.built, list |-> made.list]
           /\ UNCHANGED <<table, db>>

\* What a call leaves in the state.
Call(name, given, r) ==
    /\ op' = name
    /\ arg' = [given |-> given, after |-> r.d]
    /\ res' = r.ret
    /\ err' = r.err

\* row_maker(d), any number of times
RowMaker ==
    /\ lookups.built
    /\ \E d \in MakerRows :
        /\ Call("row_maker", d, row_maker(d, lookups.list))
        /\ lookups' = [lookups EXCEPT !.list = row_maker(d, lookups.list).list]
        /\ UNCHANGED <<table, db>>

\* empty_deleter(table)(d)
RowCleaner ==
    /\ op = "init"
    /\ \E d \in CleanerRows :
        /\ Call("row_cleaner", d, row_cleaner(d, Main))
        /\ UNCHANGED <<table, db, lookups>>

\* The same function applied to the row it returned.
RowCleanerAgain ==
    /\ op = "row_cleaner"
    /\ err = "none"
    /\ Call("row_cleaner_again", res, row_cleaner(res, Main))
    /\ UNCHANGED <<table, db, lookups>>

\* type_coercer(table)(d)
RowCoercer ==
    /\ op = "init"
    /\ \E d \in CoercerRows :
        /\ Call("row_coercer", d, row_coercer(d, Main))
        /\ UNCHANGED <<table, db, lookups>>

\* The round trip of one stored row, once the query has written it as out.
RoundTripOf(row, out, made) ==
    /\ out.err = "none"
    /\ Len(out.rows) = 1
    /\ Call("round_trip", row, row_maker(WrittenRow(out), made.list))

\* A stored row written out by denormalise_prepare and csv.writer, read back
\* by csv.DictReader and given to the row maker of renormalise_prepare.
RoundTrip ==
    /\ op = "init"
    /\ \E row \in StoredRows(1) :
        /\ RoundTripOf(row, denormalise_prepare(Session(<< row >>), Main),
                       renormalise_prepare(Session(<< row >>), Main))
        /\ UNCHANGED <<table, db, lookups>>

Next ==
    \/ FindNaturalKey
    \/ ColumnsPartition
    \/ NormalisationInfo
    \/ DenormalisePrepare
    \/ RenormalisePrepare
    \/ RowMaker
    \/ RowCleaner
    \/ RowCleanerAgain
    \/ RowCoercer
    \/ RoundTrip

Spec == Init /\ [][Next]_vars

\* ---------------------------------------------------------------- claims
\* The positions of the columns of t that are unique and neither a foreign
\* key nor a primary key.
UniqueOthers(t) ==
    { i \in 1 .. Len(Columns(t)) :
        /\ Columns(t)[i].unique
        /\ Columns(t)[i].foreign_keys = {}
        /\ ~Columns(t)[i].primary_key }

\* C1: find_natural_key returns the single-element sequence of the one
\* unique 'other' column when there is exactly one, and otherwise (none, or
\* two or more) the primary-key sequence of columns_partition, in its order.
C1_NaturalKey ==
    op = "find_natural_key" =>
        IF Cardinality(UniqueOthers(arg)) = 1
        THEN res = << Columns(arg)[CHOOSE i \in UniqueOthers(arg) : TRUE] >>
        ELSE res = columns_partition(arg).primary_keys

\* A table with two unique 'other' columns and a primary key, resolved.
C1_Witness ==
    /\ op = "find_natural_key"
    /\ arg = Main
    /\ Cardinality(UniqueOthers(Main)) = 2
    /\ Len(res) = 1
    /\ res[1].primary_key

\* C2: find_natural_key returns a non-empty sequence of columns for every
\* table, association tables included.
C2_NonEmpty == op = "find_natural_key" => res # << >>

\* C3 as amended: the plan's simple columns start with the primary-key
\* columns when the natural key found is the primary key (no single unique
\* 'other' column), and with none of them when a distinct natural key
\* exists; all 'other' columns follow in both cases.
C3_PrimaryKeys ==
    (op = "normalisation_info" /\ err = "none") =>
        LET part == columns_partition(arg)
            front == IF Cardinality(UniqueOthers(arg)) = 1 THEN << >>
                     ELSE part.primary_keys
        IN  /\ Len(res.simple_cols) >= Len(front \o part.other)
            /\ SubSeq(res.simple_cols, 1, Len(front \o part.other)) = front \o part.other

\* A table with a primary key and a distinct natural key, planned.
C3_Witness ==
    /\ op = "normalisation_info"
    /\ err = "none"
    /\ arg = Main
    /\ Cardinality(UniqueOthers(Main)) = 1
    /\ columns_partition(Main).primary_keys # << >>
    /\ columns_partition(Main).foreign_keys # << >>

\* C3 as stated: the primary-key columns are at the front of the simple
\* columns when a distinct natural key exists, and omitted when the natural
\* key is the primary key.
C3_Original ==
    (op = "normalisation_info" /\ err = "none") =>
        LET part == columns_partition(arg)
            front == IF Cardinality(UniqueOthers(arg)) = 1 THEN part.primary_keys
                     ELSE << >>
        IN  /\ Len(res.simple_cols) >= Len(front \o part.other)
            /\ SubSeq(res.simple_cols, 1, Len(front \o part.other)) = front \o part.other

\* The table a foreign key refers to.
TargetTable(fk) == (CHOOSE f \in fk.foreign_keys : TRUE).table

\* C4: for every table and every schema of remote tables the plan places
\* each foreign key either among the denormalised columns (paired with a
\* remote natural-key projection) or raw among the simple columns, never
\* both and never neither, and raw exactly when the target table has no
\* natural key distinct from its primary key.
C4_EveryForeignKeyPlaced ==
    op = "normalisation_info" =>
        /\ err = "none"
        /\ \A fk \in Range(columns_partition(arg).foreign_keys) :
            LET raw == fk \in Range(res.simple_cols)
                den == \E k \in 1 .. Len(res.from_columns) :
                          /\ res.from_columns[k] = fk
                          /\ res.denormalised_cols[k].name = fk.name
                          /\ res.denormalised_cols[k].element.table = TargetTable(fk)
            IN  /\ raw # den
                /\ raw <=> (Cardinality(UniqueOthers(TargetTable(fk))) # 1)

\* C5: a stored row that the query of denormalise_prepare writes out, read
\* back as text under col_names and given to the row maker of
\* renormalise_prepare, comes back with every foreign key holding its
\* original surrogate value under its original name and every other column
\* holding its original value (the text written for it).
C5_RoundTrip ==
    op = "round_trip" =>
        /\ err = "none"
        /\ \A c \in Range(table) :
            /\ IsForeign(c) =>
                /\ c.name \in DOMAIN res
                /\ res[c.name] \in {arg.given[c.name], CsvText(arg.given[c.name])}
            /\ IsOther(c) =>
                /\ c.name \in DOMAIN res
                /\ res[c.name] = CsvText(arg.given[c.name])

\* C6: the function empty_deleter returns, applied to a row it returned,
\* succeeds and returns that row again.
C6_Idempotent == op = "row_cleaner_again" => (err = "none" /\ res = arg.given)

\* What C7 says of the row `out` returned for the row d.
Coerced(d, out) ==
    /\ DOMAIN out = DOMAIN d
    /\ \A k \in DOMAIN d :
        /\ ~IsStr(d[k]) => out[k] = d[k]
        /\ (IsStr(d[k]) /\ ColumnOf(k).type = "bool") =>
              out[k] = PyBool(d[k].s = "True")
        /\ (IsStr(d[k]) /\ ColumnOf(k).type \notin {"bool", "date"}) => out[k] = d[k]

\* A text in a date column that the date parser rejects.
BadDate(d) ==
    \E k \in DOMAIN d :
        IsStr(d[k]) /\ ColumnOf(k).type = "date" /\ DateParse(d[k]) = NoValue

\* C7 as amended: for every row keyed by columns of the table, the function
\* type_coercer returns raises the parse error when a date column holds a
\* text the date parser rejects, and otherwise returns a row with the same
\* keys in which non-text values are unchanged, a text of a boolean column
\* is true exactly when it is "True", and a text of a column that is neither
\* boolean nor date is unchanged.
C7_Coercer ==
    op = "row_coercer" =>
        IF BadDate(arg.given) THEN err = "ParserError" /\ res = NoValue
        ELSE err = "none" /\ Coerced(arg.given, res)

\* A boolean column given "Maybe" and coerced to false.
C7_Witness ==
    /\ op = "row_coercer"
    /\ err = "none"
    /\ \E k \in DOMAIN arg.given :
        arg.given[k] = PyStr("Maybe") /\ res[k] = PyBool(FALSE)
    /\ \E k \in DOMAIN arg.given : ~IsStr(arg.given[k])

\* C7 as stated: for every row the function returns a row, with the same
\* keys and the values above.
C7_Original == op = "row_coercer" => (err = "none" /\ Coerced(arg.given, res))

\* The denormalised foreign keys of a plan, by position.
Den(plan) == 1 .. Len(plan.from_columns)

SqlName(plan, k) == plan.from_columns[k].name

CsvName(plan, k) == tidy_colname(plan.from_columns[k].name)

\* The remote rows of the k-th denormalised foreign key whose natural key,
\* as text, is v.
RemoteHits(plan, k, v) ==
    { x \in Range(db[plan.to_tables[k]]) :
        Str(x[plan.denormalised_cols[k].element.name]) = v }

\* The row carries, for each denormalised foreign key, its tidied name with
\* a natural-key text the remote table has.
Carries(plan, d) ==
    \A k \in Den(plan) :
        CsvName(plan, k) \in DOMAIN d /\ RemoteHits(plan, k, d[CsvName(plan, k)]) # {}

\* Each sql name maps to the surrogate key of the remote row found.
Resolved(plan, d, out) ==
    \A k \in Den(plan) :
        /\ SqlName(plan, k) \in DOMAIN out
        /\ \E x \in RemoteHits(plan, k, d[CsvName(plan, k)]) :
              out[SqlName(plan, k)] = x[plan.to_columns[k].name]

\* The keys that are neither a tidied nor an original foreign-key name keep
\* their values, and no other key appears.
OthersKept(plan, d, out) ==
    /\ \A key \in DOMAIN d :
        (\A k \in Den(plan) : key # CsvName(plan, k) /\ key # SqlName(plan, k)) =>
            (key \in DOMAIN out /\ out[key] = d[key])
    /\ \A key \in DOMAIN out :
        key \in DOMAIN d \/ \E k \in Den(plan) : key = SqlName(plan, k)

\* No two denormalised foreign keys share a tidied name, and no tidied name
\* is the original name of another of them.
NoClash(plan) ==
    \A j \in Den(plan) : \A k \in Den(plan) :
        j # k => (CsvName(plan, j) # CsvName(plan, k) /\ CsvName(plan, j) # SqlName(plan, k))

RowMade(plan, d, out, e) ==
    /\ e = "none"
    /\ Resolved(plan, d, out)
    /\ OthersKept(plan, d, out)
    /\ \A k \in Den(plan) :
        (\A j \in Den(plan) : CsvName(plan, k) # SqlName(plan, j)) =>
            CsvName(plan, k) \notin DOMAIN out

Miss(d) ==
    \E k \in 1 .. Len(lookups.list) :
        /\ lookups.list[k].csv_name \in DOMAIN d
        /\ d[lookups.list[k].csv_name] \notin DOMAIN lookups.list[k].lookup

\* C9: a call of the row maker with a natural-key text that the column's
\* Lookup Map lacks ends in KeyError: no row is returned, the caller's row
\* and the Lookup Maps are as before, and a call that follows a failed one
\* with a valid row succeeds.
C9_LookupFailure ==
    [][ (op' = "row_maker") =>
          /\ Miss(arg'.given) =>
                /\ err' = "KeyError"
                /\ res' = NoValue
                /\ arg'.after = arg'.given
                /\ lookups' = lookups
          /\ (op = "row_maker" /\ err = "KeyError"
                /\ NoClash(normalisation_info(Main))
                /\ Carries(normalisation_info(Main), arg'.given)) =>
                (err' = "none" /\ res' # NoValue) ]_vars

\* A row with every csv name, one of them holding a text no remote row has.
C9_Witness ==
    /\ op = "row_maker"
    /\ err = "KeyError"
    /\ Len(lookups.list) = 2
    /\ \A k \in 1 .. Len(lookups.list) : lookups.list[k].csv_name \in DOMAIN arg.given
    /\ Miss(arg.given)
    /\ ~Miss([arg.given EXCEPT ![lookups.list[2].csv_name] = PyStr("admin")])

\* The remote rows the k-th join gives the stored row r.
Joined(plan, k, r) ==
    { x \in Range(db[plan.to_tables[k]]) :
        /\ r[plan.from_columns[k].name] # None
        /\ x[plan.to_columns[k].name] = r[plan.from_columns[k].name] }

\* The stored rows every join of the plan gives a remote row, in order.
RECURSIVE Kept(_, _)
Kept(plan, rows) ==
    IF rows = << >> THEN << >>
    ELSE (IF \A k \in Den(plan) : Joined(plan, k, Head(rows)) # {}
          THEN << Head(rows) >> ELSE << >>) \o Kept(plan, Tail(rows))

\* The output row of the stored row r: the simple columns, then the natural
\* key of the remote row each denormalised foreign key refers to.
Expected(plan, r) ==
    [j \in 1 .. Len(plan.simple_cols) + Len(plan.from_columns) |->
        IF j <= Len(plan.simple_cols) THEN r[plan.simple_cols[j].name]
        ELSE LET k == j - Len(plan.simple_cols)
             IN  (CHOOSE x \in Joined(plan, k, r) : TRUE)
                    [plan.denormalised_cols[k].element.name]]

QueryGives(plan, stored, out) ==
    /\ out.col_names =
          [j \in 1 .. Len(plan.simple_cols) + Len(plan.from_columns) |->
              IF j <= Len(plan.simple_cols) THEN plan.simple_cols[j].name
              ELSE CsvName(plan, j - Len(plan.simple_cols))]
    /\ Len(out.rows) = Len(Kept(plan, stored))
    /\ \A i \in 1 .. Len(out.rows) : out.rows[i] = Expected(plan, Kept(plan, stored)[i])

\* C10: the query of denormalise_prepare yields exactly one row for each
\* stored row whose every denormalised foreign key equals the referenced
\* column of a remote row, with that remote row's natural key in the place
\* of the foreign key; a stored row with a NULL or unmatched foreign key is
\* left out; the values line up with col_names, the simple-column names
\* followed by the tidied denormalised names.
C10_Query ==
    (op = "denormalise_prepare" /\ err = "none") =>
        QueryGives(normalisation_info(Main), arg, res)

\* Two stored rows, one kept with its foreign key denormalised and one left
\* out.
C10_Witness ==
    /\ op = "denormalise_prepare"
    /\ err = "none"
    /\ Len(arg) = 2
    /\ Len(res.rows) = 1
    /\ Len(res.col_names) = 3
    /\ normalisation_info(Main).from_columns # << >>

====
